---- MODULE Spec2Model ----
(***************************************************************************)
(* Model of the `contract` attribute macro of src/lib.rs: the expansion of *)
(* one annotated item into a rewritten contract module or diagnostics.     *)
(*                                                                         *)
(* Source text is modelled as a sequence of tokens (strings); a syntax     *)
(* node's get_text is one token.  The module under expansion is the        *)
(* record `module`, fixed for the whole invocation.                        *)
(***************************************************************************)
EXTENDS Naturals, Sequences, FiniteSets

\* ------------------------------------------------------------------ bounds
MaxItems == 2
MaxElems == 2
MaxDepth == 1

\* ------------------------------------------------------- text operations
NL == "\n"

\* [T]::join(sep): the texts of ss with sep between consecutive ones
RECURSIVE join(_, _)
join(ss, sep) ==
  IF ss = <<>> THEN <<>>
  ELSE IF Len(ss) = 1 THEN Head(ss)
  ELSE Head(ss) \o sep \o join(Tail(ss), sep)

\* str::replace(from, to): every occurrence of the token `from` becomes `to`
RECURSIVE replace(_, _, _)
replace(text, from, to) ==
  IF text = <<>> THEN <<>>
  ELSE (IF Head(text) = from THEN to ELSE <<Head(text)>>)
         \o replace(Tail(text), from, to)

\* one text per element of a node list: map(get_text)
Texts(elems) == [k \in 1..Len(elems) |-> <<elems[k]>>]

\* ------------------------------------------------------------ constants
CONSTRUCTOR_FN == "constructor"
DOJO_INIT_FN == "dojo_init"

INIT_CALL == "self.world_provider.initializer();"
AUTH_GUARD ==
  "if starknet::get_caller_address() != self.world_provider.world_dispatcher().contract_address { panic }"

\* patches/contract.patch.cairo: the outer template, $name$ and $body$ once
CONTRACT_PATCH ==
  << "#[starknet::contract]", NL, "pub mod", "$name$", "{", NL,
     "<components>", NL, "$body$", NL, "}" >>

\* patches/default_init.patch.cairo: the default init, $init_name$ once
DEFAULT_INIT_PATCH ==
  << "#[abi(per_item)]", NL, "#[generate_trait]", NL,
     "pub impl IDojoInitImpl of IDojoInit {", NL, "#[external(v0)]", NL,
     "fn", "$init_name$", "(self: @ContractState) {", NL,
     AUTH_GUARD, NL, "}", NL, "}" >>

EVENT_UPGRADEABLE == "UpgradeableEvent: upgradeable_cpt::Event"
EVENT_WORLD_PROVIDER == "WorldProviderEvent: world_provider_cpt::Event"
STORAGE_UPGRADEABLE == "upgradeable: upgradeable_cpt::Storage"
STORAGE_WORLD_PROVIDER == "world_provider: world_provider_cpt::Storage"
SUBSTORAGE == "#[substorage(v0)]"

default_constructor ==
  << NL, "#[constructor]", NL, "fn constructor(", "ref self: ContractState",
     ") {", NL, INIT_CALL, NL, "}", NL >>

default_init == replace(DEFAULT_INIT_PATCH, "$init_name$", <<DOJO_INIT_FN>>)

default_event ==
  << NL, "#[event]", NL, "#[derive(Drop, starknet::Event)]", NL,
     "enum Event {", NL, EVENT_UPGRADEABLE, ",", NL,
     EVENT_WORLD_PROVIDER, ",", NL, "}", NL >>

default_storage ==
  << NL, "#[storage]", NL, "struct Storage {", NL,
     SUBSTORAGE, NL, STORAGE_UPGRADEABLE, ",", NL,
     SUBSTORAGE, NL, STORAGE_WORLD_PROVIDER, ",", NL, "}", NL >>

\* --------------------------------------------------------- augmentors
\* process_event with the user's variants placed before the infrastructure
process_event_user_first(enum_ast) ==
  LET variants == join(Texts(enum_ast.elems), <<",", NL>>)
  IN  << NL, "#[event]", NL, "#[derive(Drop, starknet::Event)]", NL,
         "enum Event {", NL >>
      \o variants
      \o << ",", NL, EVENT_UPGRADEABLE, ",", NL, EVENT_WORLD_PROVIDER, ",",
            NL, "}", NL >>

process_event(enum_ast) ==
  LET variants == join(Texts(enum_ast.elems), <<",", NL>>)
  IN  << NL, "#[event]", NL, "#[derive(Drop, starknet::Event)]", NL,
         "enum Event {", NL, EVENT_UPGRADEABLE, ",", NL,
         EVENT_WORLD_PROVIDER, ",", NL >>
      \o variants \o << NL, "}", NL >>

process_storage(struct_ast) ==
  LET members == join(Texts(struct_ast.elems), <<",", NL>>)
  IN  << NL, "#[storage]", NL, "struct Storage {", NL,
         SUBSTORAGE, NL, STORAGE_UPGRADEABLE, ",", NL,
         SUBSTORAGE, NL, STORAGE_WORLD_PROVIDER, ",", NL >>
      \o members \o << NL, "}", NL >>

\* process_constructor with the initializer call after the user's statements
process_constructor_call_last(fn_ast) ==
  LET params == join(Texts(fn_ast.params), <<", ">>)
  IN  << << NL, "#[constructor]", NL, "fn constructor(" >> \o params
         \o << ") {", NL >> >>
      \o Texts(fn_ast.elems)
      \o << <<INIT_CALL>>, <<"}">> >>

process_constructor(fn_ast) ==
  LET params == join(Texts(fn_ast.params), <<", ">>)
  IN  << << NL, "#[constructor]", NL, "fn constructor(" >> \o params
         \o << ") {", NL, INIT_CALL, NL >> >>
      \o Texts(fn_ast.elems)
      \o << <<"}">> >>

process_init(fn_ast) ==
  LET params == join(Texts(fn_ast.params), <<", ">>)
  IN  << <<"#[abi(per_item)]">>,
         <<"#[generate_trait]">>,
         <<"pub impl IDojoInitImpl of IDojoInit {">>,
         <<"#[external(v0)]">>,
         <<"fn", DOJO_INIT_FN, "(">> \o params \o <<") {">>,
         <<AUTH_GUARD>> >>
      \o Texts(fn_ast.elems)
      \o << <<"}">>, <<"}">> >>

\* ------------------------------------------------------------ name check
AsciiLetters == {"a", "Z"}
AsciiDigits == {"9"}
UnicodeAlnum == {"e_acute"}      \* U+00E9, alphabetic and not ASCII
Chars == AsciiLetters \cup AsciiDigits \cup UnicodeAlnum \cup {"_", "-"}

\* char::is_alphanumeric: the Unicode Alphabetic and Numeric classes
is_alphanumeric(c) == c \in AsciiLetters \cup AsciiDigits \cup UnicodeAlnum

is_name_valid(name) ==
  \A k \in 1..Len(name) : is_alphanumeric(name[k]) \/ name[k] = "_"

\* Vec::push and Vec::extend on body_nodes
push(nodes, fragment) == Append(nodes, fragment)

\* extend that puts the new fragments in front
extend_front(nodes, fragments) == fragments \o nodes

extend(nodes, fragments) == nodes \o fragments

\* ------------------------------------------------------------- the input
\* The token stream the macro was given; a failure hands it back unchanged.
ITEM_TOKENS == << "<annotated item>" >>

ElemPool == << "x1", "x2", "x3", "x4" >>
Elems(n) == SubSeq(ElemPool, 1, n)
ElemLists == { Elems(n) : n \in 0..MaxElems }

ParamLists ==
  { << "ref self: ContractState" >>,
    << "ref self: ContractState", "v: felt252" >> }

Item(kind, name, params, elems, text) ==
  [kind |-> kind, name |-> name, params |-> params, elems |-> elems,
   text |-> text]

EventItems == { Item("Enum", "Event", <<>>, e, "enum Event {..}") : e \in ElemLists }
StorageItems ==
  { Item("Struct", "Storage", <<>>, e, "struct Storage {..}") : e \in ElemLists }
ConstructorItems ==
  { Item("FreeFunction", CONSTRUCTOR_FN, p, e, "fn constructor(..) {..}") :
      p \in ParamLists, e \in ElemLists }
InitItems ==
  { Item("FreeFunction", DOJO_INIT_FN, p, e, "fn dojo_init(..) {..}") :
      p \in ParamLists, e \in ElemLists }
PlainItems ==
  { Item("Enum", "Color", <<>>, Elems(1), "enum Color {..}"),
    Item("Struct", "Point", <<>>, Elems(1), "struct Point {..}"),
    Item("FreeFunction", "helper", <<>>, Elems(1), "fn helper() {..}"),
    Item("Use", "", <<>>, <<>>, "use starknet::ContractAddress;") }

\* A module declared in the body; elems names the modules nested in it
DeepPool == << "Deep", "Deeper", "Deepest" >>
ModuleItems ==
  { Item("Module", "Inner", <<>>, SubSeq(DeepPool, 1, n), "mod Inner {..}") :
      n \in 0..MaxDepth }

Items ==
  EventItems \cup StorageItems \cup ConstructorItems \cup InitItems
    \cup PlainItems \cup ModuleItems

ItemSeqs == UNION { [1..n -> Items] : n \in 0..MaxItems }

Names ==
  { << "a", "_", "9" >>, << "Z" >>, << "Z", "-" >>, << "e_acute" >> }

Module(isModule, name, hasBody, items) ==
  [isModule |-> isModule, name |-> name, hasBody |-> hasBody, items |-> items]

\* The names of the module declarations among the descendants of the
\* module, in the order the walk meets them
RECURSIVE nested_modules(_)
nested_modules(items) ==
  IF items = <<>> THEN <<>>
  ELSE (IF Head(items).kind = "Module"
          THEN <<Head(items).name>> \o Head(items).elems
          ELSE <<>>)
         \o nested_modules(Tail(items))

\* What the macro can be applied to: an item that is no module, a module
\* without a body (`mod m;`), or a module with a body.
Inputs ==
  { Module(FALSE, <<>>, FALSE, <<>>) }
    \cup { Module(TRUE, n, FALSE, <<>>) : n \in Names }
    \cup { Module(TRUE, n, TRUE, its) : n \in Names, its \in ItemSeqs }

\* ------------------------------------------------------------ diagnostics
Error(message) == [severity |-> "Error", message |-> message]

NestedModuleDiagnostic(name) ==
  Error(<< "The contract module '", name,
           "' cannot contain nested modules." >>)

InvalidNameDiagnostic(name) ==
  Error(<< "The contract name '" >> \o name \o
        << "' can only contain characters (a-z/A-Z), digits (0-9) and underscore (_)." >>)

InvalidTargetDiagnostic ==
  Error(<< "Contract macro can only be applied to modules" >>)

\* ProcMacroResult::new(tokens).with_diagnostics(diagnostics)
ProcMacroResult(tokens, diagnostics) ==
  [token_stream |-> tokens, diagnostics |-> diagnostics]

\* ------------------------------------------------------------------ state
VARIABLES
  module,           \* the annotated item (never changes)
  pc,               \* position in `contract`
  idx,              \* position of the classification loop in the items
  has_event, has_storage, has_init, has_constructor,
  body_nodes,       \* the fragment list
  closure_results,  \* what the nested-module closure returned, per call
  result            \* the ProcMacroResult returned, once pc = "done"

vars ==
  << module, pc, idx, has_event, has_storage, has_init, has_constructor,
     body_nodes, closure_results, result >>

flags == << has_event, has_storage, has_init, has_constructor >>

Init ==
  /\ module \in Inputs
  /\ pc = "kind"
  /\ idx = 1
  /\ has_event = FALSE
  /\ has_storage = FALSE
  /\ has_init = FALSE
  /\ has_constructor = FALSE
  /\ body_nodes = <<>>
  /\ closure_results = <<>>
  /\ result = ProcMacroResult(<<>>, <<>>)

\* `if let SyntaxKind::ItemModule = module_ast.kind(&db) { .. } else { .. }`
CheckKind ==
  /\ pc = "kind"
  /\ IF module.isModule
       THEN /\ pc' = "nested"
            /\ result' = result
       ELSE /\ pc' = "done"
            /\ result' = ProcMacroResult(ITEM_TOKENS, <<InvalidTargetDiagnostic>>)
  /\ UNCHANGED << module, idx, flags, body_nodes, closure_results >>

\* The filter_map/for_each over the descendants: the closure runs once per
\* nested module; its `return` leaves the closure, not `contract`, and
\* for_each drops the value.
ScanNested ==
  /\ pc = "nested"
  /\ closure_results' =
       LET nested == nested_modules(module.items) IN
         [k \in 1..Len(nested) |->
            ProcMacroResult(ITEM_TOKENS, <<NestedModuleDiagnostic(nested[k])>>)]
  /\ pc' = "name"
  /\ UNCHANGED << module, idx, flags, body_nodes, result >>

\* `if !is_name_valid(&name) { return .. }`, then the accumulator is set up
CheckName ==
  /\ pc = "name"
  /\ IF ~is_name_valid(module.name)
       THEN /\ pc' = "done"
            /\ result' = ProcMacroResult(ITEM_TOKENS,
                                         <<InvalidNameDiagnostic(module.name)>>)
       ELSE /\ pc' = "classify"
            /\ result' = result
  /\ UNCHANGED << module, idx, flags, body_nodes, closure_results >>

\* The fragments one item adds to body_nodes (the arms of the match)
Contribution(item) ==
  IF item.kind = "Enum"
    THEN IF item.name = "Event" THEN <<process_event(item)>> ELSE <<>>
  ELSE IF item.kind = "Struct"
    THEN IF item.name = "Storage" THEN <<process_storage(item)>> ELSE <<>>
  ELSE IF item.kind = "FreeFunction"
    THEN IF item.name = CONSTRUCTOR_FN THEN process_constructor(item)
         ELSE IF item.name = DOJO_INIT_FN THEN process_init(item)
         ELSE <<>>
  ELSE << <<item.text>> >>

\* One iteration of `for item in body.items(&db)`
ClassifyItem ==
  /\ pc = "classify"
  /\ module.hasBody
  /\ idx <= Len(module.items)
  /\ LET item == module.items[idx] IN
       /\ has_event' = (has_event \/ (item.kind = "Enum" /\ item.name = "Event"))
       /\ has_storage' =
            (has_storage \/ (item.kind = "Struct" /\ item.name = "Storage"))
       /\ has_constructor' =
            (has_constructor
               \/ (item.kind = "FreeFunction" /\ item.name = CONSTRUCTOR_FN))
       /\ has_init' =
            (has_init \/ (item.kind = "FreeFunction" /\ item.name = DOJO_INIT_FN))
       /\ body_nodes' =
            IF item.kind = "FreeFunction"
              THEN extend(body_nodes, Contribution(item))
              ELSE IF Contribution(item) = <<>> THEN body_nodes
              ELSE push(body_nodes, Contribution(item)[1])
  /\ idx' = idx + 1
  /\ UNCHANGED << module, pc, closure_results, result >>

\* "Add default implementations if missing"
\* defaults with the event default ahead of the init default
defaults_event_first(hc, hi, he, hs) ==
  (IF ~hc THEN <<default_constructor>> ELSE <<>>)
    \o (IF ~he THEN <<default_event>> ELSE <<>>)
    \o (IF ~hi THEN <<default_init>> ELSE <<>>)
    \o (IF ~hs THEN <<default_storage>> ELSE <<>>)

defaults(hc, hi, he, hs) ==
  (IF ~hc THEN <<default_constructor>> ELSE <<>>)
    \o (IF ~hi THEN <<default_init>> ELSE <<>>)
    \o (IF ~he THEN <<default_event>> ELSE <<>>)
    \o (IF ~hs THEN <<default_storage>> ELSE <<>>)

AddDefaults ==
  /\ pc = "classify"
  /\ (~module.hasBody \/ idx > Len(module.items))
  /\ body_nodes' =
       extend(body_nodes,
              defaults(has_constructor, has_init, has_event, has_storage))
  /\ pc' = "assemble"
  /\ UNCHANGED << module, idx, flags, closure_results, result >>

\* "Combine body nodes" and "Generate final code using the contract patch"
final_code(name, nodes) ==
  LET body == join(nodes, <<NL>>)
  IN  replace(replace(CONTRACT_PATCH, "$name$", name), "$body$", body)

Assemble ==
  /\ pc = "assemble"
  /\ result' = ProcMacroResult(final_code(module.name, body_nodes), <<>>)
  /\ pc' = "done"
  /\ UNCHANGED << module, idx, flags, body_nodes, closure_results >>

Next ==
  \/ CheckKind
  \/ ScanNested
  \/ CheckName
  \/ ClassifyItem
  \/ AddDefaults
  \/ Assemble

Spec == Init /\ [][Next]_vars

\* ================================================================ claims
Done == pc = "done"
Succeeded == Done /\ result.diagnostics = <<>>
Failed == Done /\ result.diagnostics # <<>>
NoOutputText == result.token_stream = ITEM_TOKENS

Items_ == IF module.hasBody THEN module.items ELSE <<>>
Nested == nested_modules(Items_)

\* The category the specification gives an item
Category(item) ==
  IF item.kind = "Enum" /\ item.name = "Event" THEN "Event"
  ELSE IF item.kind = "Struct" /\ item.name = "Storage" THEN "Storage"
  ELSE IF item.kind = "FreeFunction" /\ item.name = "constructor"
    THEN "constructor"
  ELSE IF item.kind = "FreeFunction" /\ item.name = "dojo_init"
    THEN "dojo_init"
  ELSE "Other"

\* The name rule of the specification: non-empty, every character in
\* [A-Za-z0-9_]
NameRule(name) ==
  /\ name # <<>>
  /\ \A k \in 1..Len(name) :
       name[k] \in AsciiLetters \cup AsciiDigits \cup {"_"}

\* C1: a module with a nested module declaration at any depth ends in
\* Failure with a nested-module diagnostic and no output text; no fragment
\* is built.
C1_NestedModuleFails ==
  (Done /\ module.isModule /\ Nested # <<>>)
    => /\ \E k \in 1..Len(result.diagnostics) :
            \E m \in 1..Len(Nested) :
              result.diagnostics[k] = NestedModuleDiagnostic(Nested[m])
       /\ NoOutputText
       /\ body_nodes = <<>>

HasDuplicate ==
  \E j, k \in 1..Len(Items_) :
    j < k /\ Category(Items_[j]) # "Other"
          /\ Category(Items_[j]) = Category(Items_[k])

\* C2: a module (valid name, no nested module) in which a recognized
\* category matches more than once fails and emits no output text.
C2_DuplicateFails ==
  (Done /\ module.isModule /\ Nested = <<>> /\ NameRule(module.name)
        /\ HasDuplicate)
    => (Failed /\ NoOutputText)

\* C3: for a module without nested modules the name check accepts exactly
\* the non-empty names over [A-Za-z0-9_]; any other name fails with the
\* invalid-name diagnostic carrying that name.
C3_NameCheck ==
  (Done /\ module.isModule /\ Nested = <<>>)
    => /\ Succeeded <=> NameRule(module.name)
       /\ ~NameRule(module.name)
            => result.diagnostics = <<InvalidNameDiagnostic(module.name)>>

\* C4: in a successful expansion every top-level item outside the four
\* categories has its source text, verbatim, among the fragments.
C4_OtherItemsKept ==
  Succeeded =>
    \A k \in 1..Len(Items_) :
      Category(Items_[k]) = "Other"
        => \E f \in 1..Len(body_nodes) : body_nodes[f] = <<Items_[k].text>>

\* C10: with k >= 1 nested modules the Failure carries exactly the k
\* nested-module diagnostics, in the order found, and nothing else.
C10_NestedDiagnostics ==
  (Done /\ module.isModule /\ Nested # <<>>)
    => result.diagnostics =
         [k \in 1..Len(Nested) |-> NestedModuleDiagnostic(Nested[k])]

ValidationFailed == closure_results # <<>> \/ result.diagnostics # <<>>

\* C8: the invocation ends either with generated text and no diagnostic or
\* with diagnostics and no generated text, and once a validation step has
\* produced an error no fragment is built and nothing is assembled.
C8_SuccessOrFailure ==
  /\ Done =>
       \/ (result.diagnostics = <<>> /\ ~NoOutputText)
       \/ (result.diagnostics # <<>> /\ NoOutputText)
  /\ ValidationFailed => (body_nodes = <<>> /\ pc \notin {"classify", "assemble"}
                            /\ (Done => NoOutputText))

\* ---------------------------------------------------------------- helpers
\* the tokens of a run of fragments, one after the other
RECURSIVE Flatten(_)
Flatten(ss) ==
  IF ss = <<>> THEN <<>> ELSE Head(ss) \o Flatten(Tail(ss))

RECURSIVE Contributions(_)
Contributions(items) ==
  IF items = <<>> THEN <<>>
  ELSE Contribution(Head(items)) \o Contributions(Tail(items))

Present(category) ==
  \E k \in 1..Len(Items_) : Category(Items_[k]) = category

\* the tokens of a text without its line breaks
Tokens(text) == SelectSeq(text, LAMBDA t : t # NL)

IndexOf(text, token) ==
  IF \E k \in 1..Len(text) : text[k] = token
    THEN CHOOSE k \in 1..Len(text) :
           text[k] = token /\ \A j \in 1..(k - 1) : text[j] # token
    ELSE 0

\* the non-empty pieces of a text between occurrences of sep
RECURSIVE Split(_, _, _)
Split(text, sep, piece) ==
  IF text = <<>> THEN (IF piece = <<>> THEN <<>> ELSE <<piece>>)
  ELSE IF Head(text) = sep
    THEN (IF piece = <<>> THEN <<>> ELSE <<piece>>)
           \o Split(Tail(text), sep, <<>>)
  ELSE Split(Tail(text), sep, Append(piece, Head(text)))

\* the entries a fragment declares between its opening line and its last "}"
Entries(fragment, opening) ==
  LET toks == Tokens(fragment)
      open == IndexOf(toks, opening)
  IN  Split(SubSeq(toks, open + 1, Len(toks) - 1), ",", <<>>)

\* the state right after the classification loop handled one item
JustClassified(category) ==
  /\ pc = "classify"
  /\ idx > 1
  /\ Category(module.items[idx - 1]) = category

LastItem == module.items[idx - 1]
LastFragment == body_nodes[Len(body_nodes)]

DefaultOrder ==
  << [category |-> "constructor", fragment |-> default_constructor],
     [category |-> "dojo_init", fragment |-> default_init],
     [category |-> "Event", fragment |-> default_event],
     [category |-> "Storage", fragment |-> default_storage] >>

MissingDefaults ==
  LET missing == SelectSeq(DefaultOrder, LAMBDA d : ~Present(d.category))
  IN  [k \in 1..Len(missing) |-> missing[k].fragment]

\* C5: after the classification pass the body is the classified fragments
\* followed by one default fragment for exactly the categories no item
\* matched, in the order constructor, init, event, storage; an empty or
\* absent body gives exactly the four defaults.
C5_Defaults ==
  (pc = "assemble" \/ Succeeded)
    => /\ body_nodes = Contributions(Items_) \o MissingDefaults
       /\ Items_ = <<>> =>
            body_nodes = << default_constructor, default_init,
                            default_event, default_storage >>

C5_Witness ==
  /\ pc = "assemble"
  /\ Len(module.items) = MaxItems
  /\ Present("Event") /\ Present("constructor")
  /\ ~Present("dojo_init") /\ ~Present("Storage")
  /\ Len(body_nodes) > 2
  /\ body_nodes[Len(body_nodes) - 1] = default_init
  /\ body_nodes[Len(body_nodes)] = default_storage

\* C6: the fragment of a user Event enum or Storage struct lists the two
\* infrastructure entries first (upgradeable, then world provider) and then
\* the user's variants or members, all of them, once each, in their order.
C6_InfraFirst ==
  /\ JustClassified("Event") =>
       Entries(LastFragment, "enum Event {")
         = << <<EVENT_UPGRADEABLE>>, <<EVENT_WORLD_PROVIDER>> >>
             \o Texts(LastItem.elems)
  /\ JustClassified("Storage") =>
       Entries(LastFragment, "struct Storage {")
         = << <<SUBSTORAGE, STORAGE_UPGRADEABLE>>,
              <<SUBSTORAGE, STORAGE_WORLD_PROVIDER>> >>
             \o Texts(LastItem.elems)

C6_Witness ==
  /\ JustClassified("Storage")
  /\ Len(LastItem.elems) = MaxElems
  /\ idx = 3
  /\ Category(module.items[1]) = "Event"
  /\ module.items[1].elems = <<>>

RunLength(category) ==
  Len(LastItem.elems) + (IF category = "constructor" THEN 2 ELSE 8)

Run(category) ==
  SubSeq(body_nodes, Len(body_nodes) - RunLength(category) + 1,
         Len(body_nodes))

FunctionRun(run, opening, injected, closing) ==
  LET toks == Tokens(Flatten(run))
      open == IndexOf(toks, opening)
      close == IndexOf(toks, ") {")
      n == Len(LastItem.elems)
  IN  /\ 0 < open /\ open < close
      /\ Split(SubSeq(toks, open + 1, close - 1), ", ", <<>>)
           = Texts(LastItem.params)
      /\ toks[close + 1] = injected
      /\ SubSeq(toks, close + 2, close + 1 + n) = LastItem.elems
      /\ SubSeq(toks, close + 2 + n, Len(toks)) = closing
      /\ SubSeq(run, Len(run) - Len(closing) - n + 1, Len(run) - Len(closing))
           = Texts(LastItem.elems)

Before(category) ==
  SubSeq(body_nodes, 1, Len(body_nodes) - RunLength(category))

\* C7: the fragments of a user constructor or dojo_init function are a
\* contiguous run placed right after the earlier items' fragments: the
\* header with the original parameters, the injected statement as the first
\* statement of the body, the user's statements in order, then the closing.
C7_FunctionRun ==
  /\ JustClassified("constructor") =>
       /\ Len(body_nodes) >= RunLength("constructor")
       /\ Before("constructor") = Contributions(SubSeq(module.items, 1, idx - 2))
       /\ FunctionRun(Run("constructor"), "fn constructor(", INIT_CALL, <<"}">>)
  /\ JustClassified("dojo_init") =>
       /\ Len(body_nodes) >= RunLength("dojo_init")
       /\ Before("dojo_init") = Contributions(SubSeq(module.items, 1, idx - 2))
       /\ FunctionRun(Run("dojo_init"), "(", AUTH_GUARD, <<"}", "}">>)
       /\ SubSeq(Tokens(Flatten(Run("dojo_init"))), 1, 6)
            = << "#[abi(per_item)]", "#[generate_trait]",
                 "pub impl IDojoInitImpl of IDojoInit {", "#[external(v0)]",
                 "fn", "dojo_init" >>

C7_Witness ==
  /\ JustClassified("dojo_init")
  /\ idx = 3
  /\ Category(module.items[1]) = "constructor"
  /\ Len(module.items[1].elems) = MaxElems
  /\ Len(LastItem.elems) = MaxElems
  /\ Len(LastItem.params) = 2
  /\ Len(body_nodes) = 2 * MaxElems + 10

RECURSIVE Offset(_)
Offset(k) ==
  IF k = 1 THEN 0 ELSE Offset(k - 1) + Len(body_nodes[k - 1]) + 1

GeneratedBody ==
  LET at == IndexOf(CONTRACT_PATCH, "$body$")
      before == Len(replace(SubSeq(CONTRACT_PATCH, 1, at - 1), "$name$",
                            module.name))
      after == Len(CONTRACT_PATCH) - at
  IN  SubSeq(result.token_stream, before + 1,
             Len(result.token_stream) - after)

\* C9: during the classification pass the fragment list is the
\* concatenation, in item order, of what the items handled so far
\* contributed, and the body of the generated text is the fragments in that
\* order with one line break between consecutive fragments.
C9_EncounterOrder ==
  /\ pc = "classify" =>
       body_nodes = Contributions(SubSeq(Items_, 1, idx - 1))
  /\ Succeeded =>
       LET n == Len(body_nodes) IN
         /\ n > 0
         /\ Len(GeneratedBody) = Offset(n) + Len(body_nodes[n])
         /\ \A k \in 1..n :
              /\ SubSeq(GeneratedBody, Offset(k) + 1,
                        Offset(k) + Len(body_nodes[k])) = body_nodes[k]
              /\ k < n => GeneratedBody[Offset(k) + Len(body_nodes[k]) + 1] = NL

C9_Witness ==
  /\ Succeeded
  /\ Len(module.items) = MaxItems
  /\ Category(module.items[1]) = "Other"
  /\ module.items[1].kind = "Use"
  /\ Category(module.items[2]) = "Storage"
  /\ body_nodes[1] = <<module.items[1].text>>
  /\ body_nodes[2] = process_storage(module.items[2])
  /\ Len(body_nodes) = 5

====
